---- MODULE Spec2Model ----
(***************************************************************************)
(* Particle interaction engine of parcels: the reference interaction       *)
(* kernels and the mutator they append to, the particle id counter, the    *)
(* particle type descriptor, the recovery kernels and the flat neighbour   *)
(* search.                                                                 *)
(*                                                                         *)
(* Numbers.  Coordinates are fixed-point integers in units of 0.1 (so the  *)
(* 0.1 of DummyMoveNeighbour is one unit); a float division is the floor   *)
(* division of the fixed-point values and a float NaN is the value NaN.    *)
(* Distances are compared through their squares (sqrt is monotone).        *)
(***************************************************************************)
EXTENDS Integers, Sequences, FiniteSets, TLC

VARIABLES
    particles,      \* the particle store: id -> record of attributes
    mutator,        \* defaultdict(list): id -> sequence of (function, args)
    shadow,         \* history: each record with every mutation appended for
                    \* it applied to it at the time of the append
    committed,      \* history: the mutator as the commit found it
    prePass,        \* history: the store as it was when the pass started
    phase,          \* "eval" while kernels run, "committed" after the commit
    ran,            \* history: the kernel calls of the pass and their results
    lastID,         \* _Particle.lastID
    created,        \* history: ids of the particles constructed, in order
    alive,          \* particle objects not yet deleted (indices into created)
    idOp,           \* history: the last operation on the id counter
    pclasses,       \* the particle classes: name -> [base, vars]
    lonlatdepth_dtype, \* dtype of ScipyParticle.lon/lat/depth
    ptypeLog,       \* history: the descriptors computed so far
    rparticle,      \* the particle handed to the recovery dispatch
    userMap,        \* error codes with a user-registered recovery kernel
    outcome,        \* what the last recovery dispatch ended in
    inter_dist,     \* ScipyFlatNeighborSearch.inter_dist
    values,         \* ScipyFlatNeighborSearch._values
    kdtree,         \* the points held by ScipyFlatNeighborSearch._kdtree
    queryLog        \* history: the last query and its result

kernelVars == <<particles, mutator, shadow, committed, prePass, phase, ran>>
idVars == <<lastID, created, alive, idOp>>
typeVars == <<pclasses, lonlatdepth_dtype, ptypeLog>>
recoveryVars == <<rparticle, userMap, outcome>>
indexVars == <<inter_dist, values, kdtree, queryLog>>
vars == <<kernelVars, idVars, typeVars, recoveryVars, indexVars>>

----------------------------------------------------------------------------
(* Status codes, statuscodes.py *)

Success == 0
Evaluate == 1
Repeat == 2
Delete == 3
StopExecution == 4
Error == 5
ErrorInterpolation == 51
ErrorOutOfBounds == 6
ErrorThroughSurface == 61
ErrorTimeExtrapolation == 7

ErrorCodes ==
    {Error, ErrorInterpolation, ErrorOutOfBounds, ErrorThroughSurface,
     ErrorTimeExtrapolation}

----------------------------------------------------------------------------
(* Fixed-point arithmetic with NaN *)

NaN == 0 - 1000000

Abs(x) == IF x < 0 THEN 0 - x ELSE x

FAdd(a, b) == IF a = NaN \/ b = NaN THEN NaN ELSE a + b

FMul(a, b) == IF a = NaN \/ b = NaN THEN NaN ELSE a * b

\* a / b of numpy scalars: no exception on b = 0, the result is inf or nan,
\* and every use made of it here ends in nan; a quotient is cut toward zero
FDiv(a, b) ==
    IF a = NaN \/ b = NaN \/ b = 0
    THEN NaN
    ELSE IF (a < 0) = (b < 0)
         THEN Abs(a) \div Abs(b)
         ELSE 0 - (Abs(a) \div Abs(b))

RECURSIVE ISqrtFrom(_, _)
ISqrtFrom(x, r) == IF (r + 1) * (r + 1) > x THEN r ELSE ISqrtFrom(x, r + 1)

\* floor of the square root; exact on the squares the model's positions give
ISqrt(x) == ISqrtFrom(x, 0)

----------------------------------------------------------------------------
(* The particle population of one interaction pass *)

ParticleIds == {1, 2, 3}

\* kernel calls made in one pass of several kernels (a pass of one kernel
\* calls it at most once for each particle)
MaxCalls == 2

\* the timestep shared by the particles, and a second one
Timesteps == <<1000, 2000>>

\* (lat, lon, depth, mass) of particles 1, 2, 3: on a line with 2 midway
\* between 1 and 3; on a 3-4-5 triangle; 1 and 2 at the same position
Scenes ==
    { <<  <<0, 5, 0, 1>>, <<2, 5, 0, 1>>, <<4, 5, 0, 1>>  >>,
      <<  <<0, 0, 0, 1>>, <<3, 0, 0, 2>>, <<0, 4, 0, 3>>  >>,
      <<  <<0, 5, 1, 2>>, <<0, 5, 1, 1>>, <<2, 5, 3, 1>>  >> }

NoNeighbour == 0 - 1

\* a particle's nearest_neighbour is another particle's id, or -1
NearestChoices(i) == (ParticleIds \ {i}) \cup {NoNeighbour}

NearestMaps ==
    { f \in [ParticleIds -> ParticleIds \cup {NoNeighbour}] :
        \A i \in ParticleIds : f[i] \in NearestChoices(i) }

\* the population of scene sc with nearest neighbours nn, the attractors at
\* and the particles od on the second timestep
Population(sc, nn, at, od) ==
    [i \in ParticleIds |->
        [id |-> i, lat |-> sc[i][1], lon |-> sc[i][2], depth |-> sc[i][3],
         mass |-> sc[i][4], nearest_neighbour |-> nn[i],
         attractor |-> (i \in at),
         dt |-> IF i \in od THEN Timesteps[2] ELSE Timesteps[1],
         state |-> Evaluate]]

\* populations of a pass of MergeWithNearestNeighbour: every nearest map
MergePopulations ==
    { Population(sc, nn, {}, {}) : sc \in Scenes, nn \in NearestMaps }

\* populations of a pass of NearestNeighbourWithinRange
NearestPopulations ==
    { Population(sc, [i \in ParticleIds |-> NoNeighbour], {}, {}) : sc \in Scenes }

\* populations of a pass of AsymmetricAttraction: any attractors, and no
\* particle, 2 or 3 on the second timestep
AttractPopulations ==
    { Population(sc, [i \in ParticleIds |-> NoNeighbour], at, od) :
        sc \in Scenes, at \in SUBSET ParticleIds, od \in {{}, {2}, {3}} }

\* populations of a pass of several kernels: 1 and 2, or 2 and 3, nearest to
\* each other; 1 an attractor, or 1 and 2 with 3 on another timestep
MixedPopulations ==
    { Population(sc, nn, ao[1], ao[2]) :
        sc \in Scenes,
        nn \in { <<2, 1, 2>>, <<2, 3, 2>> },
        ao \in { << {1}, {} >>, << {1, 2}, {3} >> } }

\* the sequences over S without repetition
RECURSIVE ListsOver(_)
ListsOver(S) ==
    {<< >>} \cup UNION { { <<x>> \o l : l \in ListsOver(S \ {x}) } : x \in S }

\* the neighbours of a particle never include the particle itself; their
\* order is unspecified
NeighbourLists(i) == ListsOver(ParticleIds \ {i})

\* The neighbour descriptor handed to a kernel: the neighbour's attributes
\* copied out of the store, with its horizontal and vertical distance to p.
Hydrate(store, p, n) ==
    [id |-> store[n].id,
     surf_dist |-> ISqrt((store[n].lat - store[p].lat) * (store[n].lat - store[p].lat)
                       + (store[n].lon - store[p].lon) * (store[n].lon - store[p].lon)),
     depth_dist |-> Abs(store[n].depth - store[p].depth),
     lat |-> store[n].lat, lon |-> store[n].lon, depth |-> store[n].depth,
     mass |-> store[n].mass, nearest_neighbour |-> store[n].nearest_neighbour,
     attractor |-> store[n].attractor, dt |-> store[n].dt]

HydrateAll(store, p, ids) == [k \in 1..Len(ids) |-> Hydrate(store, p, ids[k])]

----------------------------------------------------------------------------
(* The reference kernels, application_kernels/interaction.py.  A kernel    *)
(* yields the appends it makes to the mutator, in order, the attribute     *)
(* writes it makes to the particle or a neighbour, its return value and    *)
(* the exception it raises.                                                *)

\* the value of a call that raised
NoReturn == 0 - 1

Enqueue(target, fn, args) == [target |-> target, fn |-> fn, args |-> args]

KernelResult(appends, writes, res, raised) ==
    [appends |-> appends, writes |-> writes, res |-> res, raised |-> raised]

\* np.sqrt(n.surf_dist**2 + n.depth_dist**2), squared
Dist2(n) == n.surf_dist * n.surf_dist + n.depth_dist * n.depth_dist

\* np.argmin: the first index of the least value
ArgMin(neighbours) ==
    CHOOSE i \in 1..Len(neighbours) :
        /\ \A j \in 1..Len(neighbours) : Dist2(neighbours[i]) <= Dist2(neighbours[j])
        /\ \A j \in 1..(i - 1) : Dist2(neighbours[j]) > Dist2(neighbours[i])

\* DummyMoveNeighbour adding to the neighbour's lat itself
DummyMoveNeighbourDirect(particle, neighbours) ==
    IF Len(neighbours) = 0
    THEN KernelResult(<< >>, << >>, Success, "none")
    ELSE KernelResult(
             << >>,
             << [target |-> neighbours[ArgMin(neighbours)].id, attr |-> "lat",
                 value |-> neighbours[ArgMin(neighbours)].lat + 1] >>,
             Success, "none")

DummyMoveNeighbour(particle, neighbours) ==
    IF Len(neighbours) = 0
    THEN KernelResult(<< >>, << >>, Success, "none")
    ELSE KernelResult(
             << Enqueue(neighbours[ArgMin(neighbours)].id, "DummyMoveNeighbour.f", << >>) >>,
             << >>, Success, "none")

\* the loop of NearestNeighbourWithinRange from neighbour k on, with the
\* running (min_dist, neighbour_id); min_dist is kept squared, -1 is unset
RECURSIVE NearestScan(_, _, _, _)
NearestScan(neighbours, k, min_dist, neighbour_id) ==
    IF k > Len(neighbours)
    THEN neighbour_id
    ELSE IF Dist2(neighbours[k]) < min_dist \/ min_dist = 0 - 1
         THEN NearestScan(neighbours, k + 1, Dist2(neighbours[k]), neighbours[k].id)
         ELSE NearestScan(neighbours, k + 1, min_dist, neighbour_id)

NearestNeighbourWithinRange(particle, neighbours) ==
    KernelResult(
        << Enqueue(particle.id, "NearestNeighbourWithinRange.f",
                   << NearestScan(neighbours, 1, 0 - 1, 0 - 1) >>) >>,
        << >>, Success, "none")

\* MergeScan merging from both sides: the test particle.id < n.id left out
RECURSIVE MergeScanBothSides(_, _, _)
MergeScanBothSides(particle, neighbours, k) ==
    IF k > Len(neighbours)
    THEN << >>
    ELSE LET n == neighbours[k] IN
         IF n.id = particle.nearest_neighbour
         THEN IF n.nearest_neighbour = particle.id
              THEN << Enqueue(n.id, "MergeWithNearestNeighbour.g", << >>),
                      Enqueue(particle.id, "MergeWithNearestNeighbour.f",
                              <<n.lat, n.lon, n.depth, n.mass>>) >>
              ELSE << >>
         ELSE MergeScanBothSides(particle, neighbours, k + 1)

\* the loop without the test that the neighbour's nearest is the particle
RECURSIVE MergeScanNotMutual(_, _, _)
MergeScanNotMutual(particle, neighbours, k) ==
    IF k > Len(neighbours)
    THEN << >>
    ELSE LET n == neighbours[k] IN
         IF n.id = particle.nearest_neighbour
         THEN IF particle.id < n.id
              THEN << Enqueue(n.id, "MergeWithNearestNeighbour.g", << >>),
                      Enqueue(particle.id, "MergeWithNearestNeighbour.f",
                              <<n.lat, n.lon, n.depth, n.mass>>) >>
              ELSE << >>
         ELSE MergeScanNotMutual(particle, neighbours, k + 1)

\* the loop of MergeWithNearestNeighbour from neighbour k on: it returns at
\* the first neighbour whose id is particle.nearest_neighbour
RECURSIVE MergeScan(_, _, _)
MergeScan(particle, neighbours, k) ==
    IF k > Len(neighbours)
    THEN << >>
    ELSE LET n == neighbours[k] IN
         IF n.id = particle.nearest_neighbour
         THEN IF n.nearest_neighbour = particle.id /\ particle.id < n.id
              THEN << Enqueue(n.id, "MergeWithNearestNeighbour.g", << >>),
                      Enqueue(particle.id, "MergeWithNearestNeighbour.f",
                              <<n.lat, n.lon, n.depth, n.mass>>) >>
              ELSE << >>
         ELSE MergeScan(particle, neighbours, k + 1)

MergeWithNearestNeighbour(particle, neighbours) ==
    KernelResult(MergeScan(particle, neighbours, 1), << >>, Success, "none")

\* velocity_param = 0.000004, in fixed-point units: 0.004 = 4 / 1000
velocity_param_num == 4
velocity_param_den == 1000

\* np.linalg.norm(dx)
Norm(dx) == ISqrt(dx[1] * dx[1] + dx[2] * dx[2] + dx[3] * dx[3])

\* d_vec = (velocity_param / dx_norm**2) * n.dt * dx / dx_norm
DVec(particle, n) ==
    LET dx == <<particle.lat - n.lat, particle.lon - n.lon, particle.depth - n.depth>>
        dx_norm == Norm(dx)
    IN  [c \in 1..3 |->
            IF particle.lat = NaN \/ particle.lon = NaN \/ particle.depth = NaN
            THEN NaN
            ELSE FDiv(velocity_param_num * n.dt * dx[c],
                      velocity_param_den * dx_norm * dx_norm * dx_norm)]

\* the second loop of AsymmetricAttraction over na_neighbors from k on
RECURSIVE AttractScan(_, _, _, _)
AttractScan(particle, na_neighbors, k, appends) ==
    IF k > Len(na_neighbors)
    THEN KernelResult(appends, << >>, Success, "none")
    ELSE LET n == na_neighbors[k] IN
         IF n.dt # particle.dt
         THEN KernelResult(appends, << >>, NoReturn, "AssertionError")
         ELSE AttractScan(particle, na_neighbors, k + 1,
                  Append(appends,
                         Enqueue(n.id, "AsymmetricAttraction.f", DVec(particle, n))))

\* every neighbour taken, attractor or not
AnyNeighbour(n) == TRUE

IsNotAttractor(n) == ~n.attractor

AsymmetricAttraction(particle, neighbours) ==
    IF ~particle.attractor
    THEN KernelResult(<< >>, << >>, Success, "none")
    ELSE AttractScan(particle, SelectSeq(neighbours, IsNotAttractor), 1, << >>)

----------------------------------------------------------------------------
(* The mutator and its mutation functions *)

\* p.lat += 0.1, one fixed-point unit
Tenth == 1

\* the mutation put at the head of the target's list
MutatorPrepend(mut, target, m) == [mut EXCEPT ![target] = <<m>> \o @]

\* mutator[target].append((fn, args))
MutatorAppend(mut, target, m) == [mut EXCEPT ![target] = Append(@, m)]

RECURSIVE AppendAll(_, _, _)
AppendAll(mut, appends, k) ==
    IF k > Len(appends)
    THEN mut
    ELSE AppendAll(MutatorAppend(mut, appends[k].target,
                                 [fn |-> appends[k].fn, args |-> appends[k].args]),
                   appends, k + 1)

\* the closures, the update of MergeWithNearestNeighbour reading the
\* neighbour's attributes when it is applied instead of its arguments
ApplyMutationLate(m, p) ==
    CASE m.fn = "DummyMoveNeighbour.f" ->
            [p EXCEPT !.lat = FAdd(@, Tenth)]
      [] m.fn = "NearestNeighbourWithinRange.f" ->
            [p EXCEPT !.nearest_neighbour = m.args[1]]
      [] m.fn = "MergeWithNearestNeighbour.g" ->
            [p EXCEPT !.state = Delete]
      [] m.fn = "MergeWithNearestNeighbour.f" ->
            LET n == IF p.nearest_neighbour \in DOMAIN shadow
                     THEN shadow[p.nearest_neighbour]
                     ELSE p
            IN  [p EXCEPT
                   !.lat = FDiv(FAdd(FMul(p.mass, p.lat), FMul(n.mass, n.lat)),
                                FAdd(p.mass, n.mass)),
                   !.lon = FDiv(FAdd(FMul(p.mass, p.lon), FMul(n.mass, n.lon)),
                                FAdd(p.mass, n.mass)),
                   !.depth = FDiv(FAdd(FMul(p.mass, p.depth), FMul(n.mass, n.depth)),
                                  FAdd(p.mass, n.mass)),
                   !.mass = FAdd(p.mass, n.mass)]
      [] m.fn = "AsymmetricAttraction.f" ->
            [p EXCEPT !.lat = FAdd(@, m.args[1]),
                      !.lon = FAdd(@, m.args[2]),
                      !.depth = FAdd(@, m.args[3])]

\* the closures f and g of the kernels, applied to the record p
ApplyMutation(m, p) ==
    CASE m.fn = "DummyMoveNeighbour.f" ->
            [p EXCEPT !.lat = FAdd(@, Tenth)]
      [] m.fn = "NearestNeighbourWithinRange.f" ->
            [p EXCEPT !.nearest_neighbour = m.args[1]]
      [] m.fn = "MergeWithNearestNeighbour.g" ->
            [p EXCEPT !.state = Delete]
      [] m.fn = "MergeWithNearestNeighbour.f" ->
            LET nlat == m.args[1]
                nlon == m.args[2]
                ndepth == m.args[3]
                nmass == m.args[4]
            IN  [p EXCEPT
                   !.lat = FDiv(FAdd(FMul(p.mass, p.lat), FMul(nmass, nlat)),
                                FAdd(p.mass, nmass)),
                   !.lon = FDiv(FAdd(FMul(p.mass, p.lon), FMul(nmass, nlon)),
                                FAdd(p.mass, nmass)),
                   !.depth = FDiv(FAdd(FMul(p.mass, p.depth), FMul(nmass, ndepth)),
                                  FAdd(p.mass, nmass)),
                   !.mass = FAdd(p.mass, nmass)]
      [] m.fn = "AsymmetricAttraction.f" ->
            [p EXCEPT !.lat = FAdd(@, m.args[1]),
                      !.lon = FAdd(@, m.args[2]),
                      !.depth = FAdd(@, m.args[3])]

\* a target's queue applied from its k-th mutation on, each mutation to the
\* record the one before it left
RECURSIVE ApplyQueue(_, _, _)
ApplyQueue(queue, k, p) ==
    IF k > Len(queue) THEN p ELSE ApplyQueue(queue, k + 1, ApplyMutation(queue[k], p))

\* attribute writes p.attr = value of a kernel body to objects of the store
RECURSIVE ApplyWrites(_, _, _)
ApplyWrites(store, writes, k) ==
    IF k > Len(writes)
    THEN store
    ELSE ApplyWrites([store EXCEPT ![writes[k].target][writes[k].attr] = writes[k].value],
                     writes, k + 1)

EmptyMutator == [i \in ParticleIds |-> << >>]

\* every mutation appended, applied to the shadow record of its target
RECURSIVE ShadowAll(_, _, _)
ShadowAll(sh, appends, k) ==
    IF k > Len(appends)
    THEN sh
    ELSE ShadowAll([sh EXCEPT ![appends[k].target] =
                        ApplyMutation([fn |-> appends[k].fn, args |-> appends[k].args], @)],
                   appends, k + 1)

KernelInit(populations) ==
    /\ particles \in populations
    /\ prePass = particles
    /\ shadow = particles
    /\ mutator = EmptyMutator
    /\ committed = EmptyMutator
    /\ phase = "eval"
    /\ ran = {}

KernelIdle ==
    /\ particles = Population(<< <<0, 0, 0, 1>>, <<0, 0, 0, 1>>, <<0, 0, 0, 1>> >>,
                              [i \in ParticleIds |-> NoNeighbour], {}, {})
    /\ prePass = particles
    /\ shadow = particles
    /\ mutator = EmptyMutator
    /\ committed = EmptyMutator
    /\ phase = "idle"
    /\ ran = {}

IdIdle == lastID = 0 /\ created = << >> /\ alive = {} /\ idOp = "none"
TypeIdle == pclasses = << >> /\ lonlatdepth_dtype = "float32" /\ ptypeLog = 0
RecoveryIdle == rparticle = 0 /\ userMap = {} /\ outcome = 0
IndexIdle == inter_dist = << >> /\ values = << >> /\ kdtree = << >> /\ queryLog = << >>

\* One kernel call of the pass: kernel `name` on particle p with the
\* neighbours `ids`, in this order; r is what the kernel did.  A kernel is
\* called once for a particle; an exception aborts the pass.
Call(name, p, ids, r) ==
    /\ phase = "eval"
    /\ (\A c \in ran : c.kernel = name) \/ Cardinality(ran) < MaxCalls
    /\ \A c \in ran : ~(c.kernel = name /\ c.particle = p)
    /\ particles' = ApplyWrites(particles, r.writes, 1)
    /\ mutator' = AppendAll(mutator, r.appends, 1)
    /\ shadow' = ShadowAll(shadow, r.appends, 1)
    /\ ran' = ran \cup {[kernel |-> name, particle |-> p, neighbours |-> ids,
                         res |-> r.res, raised |-> r.raised]}
    /\ phase' = IF r.raised = "none" THEN "eval" ELSE "aborted"
    /\ UNCHANGED <<prePass, committed>>
    /\ UNCHANGED <<idVars, typeVars, recoveryVars, indexVars>>

CallDummyMoveNeighbour ==
    \E p \in ParticleIds : \E ids \in NeighbourLists(p) :
        Call("DummyMoveNeighbour", p, ids,
             DummyMoveNeighbour(particles[p], HydrateAll(particles, p, ids)))

CallNearestNeighbourWithinRange ==
    \E p \in ParticleIds : \E ids \in NeighbourLists(p) :
        Call("NearestNeighbourWithinRange", p, ids,
             NearestNeighbourWithinRange(particles[p], HydrateAll(particles, p, ids)))

CallMergeWithNearestNeighbour ==
    \E p \in ParticleIds : \E ids \in NeighbourLists(p) :
        Call("MergeWithNearestNeighbour", p, ids,
             MergeWithNearestNeighbour(particles[p], HydrateAll(particles, p, ids)))

CallAsymmetricAttraction ==
    \E p \in ParticleIds : \E ids \in NeighbourLists(p) :
        Call("AsymmetricAttraction", p, ids,
             AsymmetricAttraction(particles[p], HydrateAll(particles, p, ids)))

\* The commit of the pass: for each target with queued mutations, the queue
\* is applied in order to the target's record; the ledger is then cleared.
Commit ==
    /\ phase = "eval"
    /\ ran # {}
    /\ particles' = [i \in ParticleIds |-> ApplyQueue(mutator[i], 1, particles[i])]
    /\ committed' = mutator
    /\ mutator' = EmptyMutator
    /\ phase' = "committed"
    /\ UNCHANGED <<shadow, prePass, ran>>
    /\ UNCHANGED <<idVars, typeVars, recoveryVars, indexVars>>

KernelNext ==
    \/ CallDummyMoveNeighbour
    \/ CallNearestNeighbourWithinRange
    \/ CallMergeWithNearestNeighbour
    \/ CallAsymmetricAttraction
    \/ Commit

KernelSpecInit ==
    KernelInit(MixedPopulations) /\ IdIdle /\ TypeIdle /\ RecoveryIdle /\ IndexIdle

\* a pass of any of the four kernels
SpecKernel == KernelSpecInit /\ [][KernelNext]_vars

MergeInit ==
    KernelInit(MergePopulations) /\ IdIdle /\ TypeIdle /\ RecoveryIdle /\ IndexIdle

MergeNext == CallMergeWithNearestNeighbour \/ Commit

\* a pass of MergeWithNearestNeighbour alone
SpecMerge == MergeInit /\ [][MergeNext]_vars

NearestInit ==
    KernelInit(NearestPopulations) /\ IdIdle /\ TypeIdle /\ RecoveryIdle /\ IndexIdle

NearestNext == CallNearestNeighbourWithinRange \/ Commit

\* a pass of NearestNeighbourWithinRange alone
SpecNearest == NearestInit /\ [][NearestNext]_vars

AttractInit ==
    KernelInit(AttractPopulations) /\ IdIdle /\ TypeIdle /\ RecoveryIdle /\ IndexIdle

AttractNext == CallAsymmetricAttraction \/ Commit

\* a pass of AsymmetricAttraction alone
SpecAttract == AttractInit /\ [][AttractNext]_vars

----------------------------------------------------------------------------
(* Properties of the interaction pass *)

IsListed(x, ids) == \E k \in 1..Len(ids) : ids[k] = x

CountOf(queue, fn) == Cardinality({k \in 1..Len(queue) : queue[k].fn = fn})

\* MergeWithNearestNeighbour has run for particle p with x among its neighbours
MergeRanFor(p, x) ==
    \E c \in ran : /\ c.kernel = "MergeWithNearestNeighbour"
                   /\ c.particle = p
                   /\ IsListed(x, c.neighbours)

MutualPair(a, b) ==
    /\ a < b
    /\ prePass[a].nearest_neighbour = b
    /\ prePass[b].nearest_neighbour = a

\* C1 (merge symmetry): when MergeWithNearestNeighbour has run for A and for
\* B, A.id < B.id, each the other's nearest neighbour and each listed as a
\* neighbour of the other, the mutator holds exactly one deletion, on B, and
\* exactly one centroid and mass update, on A, and none the other way round.
C1_MergeSymmetry ==
    \A a, b \in ParticleIds :
        (phase = "eval" /\ MutualPair(a, b) /\ MergeRanFor(a, b) /\ MergeRanFor(b, a))
        => /\ CountOf(mutator[b], "MergeWithNearestNeighbour.g") = 1
           /\ CountOf(mutator[a], "MergeWithNearestNeighbour.f") = 1
           /\ CountOf(mutator[a], "MergeWithNearestNeighbour.g") = 0
           /\ CountOf(mutator[b], "MergeWithNearestNeighbour.f") = 0

C1_Witness ==
    \E a, b \in ParticleIds :
        /\ phase = "eval" /\ MutualPair(a, b) /\ MergeRanFor(a, b) /\ MergeRanFor(b, a)
        /\ mutator[b] = << [fn |-> "MergeWithNearestNeighbour.g", args |-> << >>] >>
        /\ Len(mutator[a]) = 1

\* the ids of the neighbours in ids at the least distance from p
NearestIds(p, ids) ==
    { ids[k] : k \in { k \in 1..Len(ids) :
                         \A j \in 1..Len(ids) :
                             Dist2(Hydrate(prePass, p, ids[k]))
                                 <= Dist2(Hydrate(prePass, p, ids[j])) } }

MinOf(S) == CHOOSE x \in S : \A y \in S : x <= y

\* C2 (tie-break determinism): NearestNeighbourWithinRange, run for a
\* particle with a non-empty neighbour sequence in any order, enqueues on the
\* particle the mutation that sets nearest_neighbour to the neighbour at the
\* least distance, the one of lowest id when several are at that distance.
C2_LowestIdWins ==
    \A c \in ran :
        (/\ phase = "eval"
         /\ c.kernel = "NearestNeighbourWithinRange"
         /\ Len(c.neighbours) > 0)
        => mutator[c.particle] =
               << [fn |-> "NearestNeighbourWithinRange.f",
                   args |-> << MinOf(NearestIds(c.particle, c.neighbours)) >>] >>

RECURSIVE Reverse(_)
Reverse(q) == IF q = << >> THEN << >> ELSE Append(Reverse(Tail(q)), Head(q))

\* C4 (ledger ordering): the commit leaves each record as if every mutation
\* appended for it had been applied to it in the order of the appends, each
\* to the result of the one before, whatever was appended for other targets
\* in between.
C4_LedgerOrdering == phase = "committed" => particles = shadow

\* a committed target with several mutations whose order matters
C4_Witness ==
    /\ phase = "committed"
    /\ \E t \in ParticleIds :
          /\ Len(committed[t]) >= 2
          /\ ApplyQueue(Reverse(committed[t]), 1, prePass[t]) # particles[t]

\* C5 (pass isolation): until the commit, whatever kernels have run and
\* whatever they queued, the store holds the pre-pass values of every
\* attribute of every particle, so each kernel call reads those values.
C5_PassIsolation == phase \in {"eval", "aborted"} => particles = prePass

Involves(c, t) == c.particle = t \/ IsListed(t, c.neighbours)

\* two kernel calls on the same particle, which has mutations queued
C5_Witness ==
    /\ phase = "eval"
    /\ \E t \in ParticleIds : \E c1, c2 \in ran :
          /\ c1 # c2
          /\ Involves(c1, t) /\ Involves(c2, t)
          /\ mutator[t] # << >>
          /\ ApplyQueue(mutator[t], 1, particles[t]) # particles[t]

\* the mutations of the pass: queued, or those the commit applied
Ledger == IF phase = "committed" THEN committed ELSE mutator

\* the mass-weighted centroid of records p and n, and the sum of their masses
Merged(p, n) ==
    [p EXCEPT !.lat = FDiv(p.mass * p.lat + n.mass * n.lat, p.mass + n.mass),
              !.lon = FDiv(p.mass * p.lon + n.mass * n.lon, p.mass + n.mass),
              !.depth = FDiv(p.mass * p.depth + n.mass * n.depth, p.mass + n.mass),
              !.mass = p.mass + n.mass]

MergeUpdates(queue) == {k \in 1..Len(queue) : queue[k].fn = "MergeWithNearestNeighbour.f"}

\* C12 (merge uses enqueue-time values): the update MergeWithNearestNeighbour
\* enqueues on the survivor carries the lat, lon, depth and mass the
\* neighbour had when the kernel ran; once committed, a survivor with that
\* update alone is at the centroid of its and the neighbour's pre-pass
\* records, whatever the pass queued for the neighbour and did to it.
C12_EnqueueTimeValues ==
    \A a \in ParticleIds :
        /\ \A k \in MergeUpdates(Ledger[a]) :
              LET b == prePass[a].nearest_neighbour IN
              /\ b \in ParticleIds
              /\ Ledger[a][k].args =
                    <<prePass[b].lat, prePass[b].lon, prePass[b].depth, prePass[b].mass>>
        /\ (phase = "committed" /\ Len(committed[a]) = 1 /\ MergeUpdates(committed[a]) = {1})
              => particles[a] = Merged(prePass[a], prePass[prePass[a].nearest_neighbour])

\* a committed merge whose neighbour was deleted and moved by the same commit
C12_Witness ==
    \E a \in ParticleIds :
        /\ phase = "committed"
        /\ Len(committed[a]) = 1
        /\ MergeUpdates(committed[a]) = {1}
        /\ LET b == prePass[a].nearest_neighbour IN
           /\ Len(committed[b]) >= 2
           /\ particles[b].state = Delete
           /\ <<particles[b].lat, particles[b].lon, particles[b].depth>>
                 # <<prePass[b].lat, prePass[b].lon, prePass[b].depth>>
           /\ Merged(prePass[a], particles[b]) # particles[a]


AttractCalls == {c \in ran : c.kernel = "AsymmetricAttraction"}

\* the places in the neighbour list of call c of the non-attractor neighbours
\* whose timestep is not the particle's
Mismatches(c) ==
    {k \in 1..Len(c.neighbours) :
        /\ ~prePass[c.neighbours[k]].attractor
        /\ prePass[c.neighbours[k]].dt # prePass[c.particle].dt}

\* call c, of an attractor, has t among its non-attractor neighbours
AttractsListed(c, t) ==
    /\ prePass[c.particle].attractor
    /\ ~prePass[t].attractor
    /\ IsListed(t, c.neighbours)

\* ... and no non-attractor neighbour up to t is on another timestep
AttractsReached(c, t) ==
    /\ AttractsListed(c, t)
    /\ \A k \in 1..Len(c.neighbours) :
          c.neighbours[k] = t => \A j \in Mismatches(c) : k < j

\* C13 (asymmetric attraction targets), as claimed: a call for a particle
\* that is no attractor enqueues nothing; a call for an attractor enqueues
\* exactly one position mutation on each non-attractor neighbour, none on the
\* particle or on an attractor; every call returns Success.
C13_AttractionTargets ==
    /\ \A c \in AttractCalls : c.res = Success /\ c.raised = "none"
    /\ \A t \in ParticleIds :
          /\ CountOf(Ledger[t], "AsymmetricAttraction.f")
                = Cardinality({c \in AttractCalls : AttractsListed(c, t)})
          /\ Len(Ledger[t]) = CountOf(Ledger[t], "AsymmetricAttraction.f")

\* C13, amended: so it is when every non-attractor neighbour is on the
\* particle's timestep.  At the first one that is not, the call of an
\* attractor raises AssertionError, returns nothing, and has enqueued the
\* mutations of the non-attractor neighbours before that one only.
C13_AttractionTargetsSameDt ==
    /\ \A c \in AttractCalls :
          IF prePass[c.particle].attractor /\ Mismatches(c) # {}
          THEN c.raised = "AssertionError" /\ c.res = NoReturn
          ELSE c.raised = "none" /\ c.res = Success
    /\ \A t \in ParticleIds :
          /\ CountOf(Ledger[t], "AsymmetricAttraction.f")
                = Cardinality({c \in AttractCalls : AttractsReached(c, t)})
          /\ Len(Ledger[t]) = CountOf(Ledger[t], "AsymmetricAttraction.f")

\* calls of two attractors, each with the other and the same non-attractor
\* among its neighbours, and the call of a particle that is no attractor
C13_Witness ==
    \E c1, c2, c3 \in AttractCalls : \E t \in ParticleIds :
        /\ c1.particle # c2.particle
        /\ AttractsReached(c1, t) /\ AttractsReached(c2, t)
        /\ IsListed(c2.particle, c1.neighbours)
        /\ IsListed(c1.particle, c2.neighbours)
        /\ c3.particle = t /\ Len(c3.neighbours) = 2
        /\ Len(Ledger[t]) = 2
        /\ Ledger[c1.particle] = << >>

\* a call that raised after it had enqueued a mutation
AttractionRaisedAfterEnqueue ==
    \E c \in AttractCalls : \E t \in ParticleIds :
        /\ c.raised = "AssertionError"
        /\ AttractsReached(c, t)
        /\ Len(Ledger[t]) >= 1

\* C14 (one mutation per id in a merge pass): in a pass of
\* MergeWithNearestNeighbour, whatever the nearest_neighbour values and the
\* neighbour lists, no particle is the target of more than one mutation: a
\* deleted particle is deleted once and gets no update, and a survivor gets
\* one update and is not deleted.
C14_OneMutationPerId ==
    \A t \in ParticleIds :
        /\ Len(Ledger[t]) <= 1
        /\ CountOf(Ledger[t], "MergeWithNearestNeighbour.g") = 1
              => CountOf(Ledger[t], "MergeWithNearestNeighbour.f") = 0
        /\ \A c \in ran : c.res = Success /\ c.raised = "none"

\* the kernel has run for all three particles, each with the two others as
\* neighbours: two of them merged, the third has one of the two as nearest
C14_Witness ==
    \E a, b, c \in ParticleIds :
        /\ MutualPair(a, b)
        /\ c \notin {a, b}
        /\ prePass[c].nearest_neighbour \in {a, b}
        /\ \A p \in ParticleIds : \E r \in ran : r.particle = p /\ Len(r.neighbours) = 2
        /\ CountOf(Ledger[a], "MergeWithNearestNeighbour.f") = 1
        /\ CountOf(Ledger[b], "MergeWithNearestNeighbour.g") = 1
        /\ Ledger[c] = << >>

----------------------------------------------------------------------------
(* The particle id counter, particle.py *)

\* the pids a caller passes to ScipyParticle are in 0..MaxPid
MaxPid == 2

\* particles constructed in one run
MaxCreated == 3

Max(a, b) == IF a >= b THEN a ELSE b

\* the counter set to the pid, whatever it held
LastIDOverwritten(last, pid) == pid

\* _Particle.lastID = max(_Particle.lastID, pid)
LastIDAfterInit(last, pid) == Max(last, pid)

IdInit ==
    /\ lastID = 0
    /\ created = << >>
    /\ alive = {}
    /\ idOp = "none"

\* ScipyParticle.__init__(lon, lat, pid, ...): the id is the pid the caller
\* passes
ScipyParticleInit ==
    \E pid \in 0..MaxPid :
        /\ Len(created) < MaxCreated
        /\ lastID' = LastIDAfterInit(lastID, pid)
        /\ created' = Append(created, pid)
        /\ alive' = alive \cup {Len(created) + 1}
        /\ idOp' = "create"
        /\ UNCHANGED <<kernelVars, typeVars, recoveryVars, indexVars>>

\* ScipyParticle.__del__: nothing but the object goes
ScipyParticleDel ==
    \E k \in alive :
        /\ alive' = alive \ {k}
        /\ idOp' = "delete"
        /\ UNCHANGED <<lastID, created>>
        /\ UNCHANGED <<kernelVars, typeVars, recoveryVars, indexVars>>

\* _Particle.setLastID(offset)
setLastID ==
    \E offset \in 0..MaxPid :
        /\ lastID' = offset
        /\ idOp' = "setLastID"
        /\ UNCHANGED <<created, alive>>
        /\ UNCHANGED <<kernelVars, typeVars, recoveryVars, indexVars>>

IdNext == ScipyParticleInit \/ ScipyParticleDel \/ setLastID

IdSpecInit == KernelIdle /\ IdInit /\ TypeIdle /\ RecoveryIdle /\ IndexIdle

SpecId == IdSpecInit /\ [][IdNext]_vars

\* C3 (id monotonicity), as claimed: over creations, deletions and setLastID
\* calls the counter never decreases and every particle created has an id
\* greater than the id of every particle created before it (so no id is
\* given twice).
C3_IdMonotonicity ==
    [][ /\ lastID' >= lastID
        /\ Len(created') > Len(created)
              => \A k \in 1..Len(created) : created'[Len(created')] > created[k] ]_vars

\* C3, amended: a creation never lowers the counter and leaves it at least
\* the id it was passed, a deletion leaves the counter alone, and while
\* setLastID is not called the counter stays at least every id created.
C3_CounterKeptByCreation ==
    [][ /\ idOp' = "create" /\ Len(created') > Len(created)
              => /\ lastID' >= lastID
                 /\ lastID' >= created'[Len(created')]
        /\ alive' \subseteq alive /\ alive' # alive => lastID' = lastID
        /\ (Len(created') > Len(created) \/ alive' # alive)
            /\ (\A k \in 1..Len(created) : created[k] <= lastID)
              => \A k \in 1..Len(created') : created'[k] <= lastID' ]_vars

\* a creation with a pid below the counter, after a deletion
C3_Witness ==
    /\ idOp = "create"
    /\ Len(created) >= 2
    /\ created[Len(created)] < lastID
    /\ \A k \in 1..Len(created) : created[k] <= lastID
    /\ Cardinality(alive) < Len(created)

----------------------------------------------------------------------------
(* The recovery kernels, tools/statuscodes.py *)

NoException == [kind |-> "None", coords |-> << >>]

\* the exception classes with attributes x, y, z, at the origin or off it
SamplingExceptions ==
    { [kind |-> k, coords |-> c] :
        k \in {"FieldSamplingError", "FieldOutOfBoundError", "FieldOutOfBoundSurfaceError"},
        c \in { <<0, 0, 0>>, <<1, 2, 3>> } }

OtherExceptions ==
    { [kind |-> "TimeExtrapolationError", coords |-> << >>],
      [kind |-> "Exception", coords |-> << >>] }

HasXYZ(e) == Len(e.coords) = 3

\* The exception recorded on a particle with an error code: none, or the
\* sampling error the code stands for; any exception with the generic Error.
ExceptionsOf(code) ==
    {NoException} \cup
    CASE code = Error -> SamplingExceptions \cup OtherExceptions
      [] code = ErrorInterpolation ->
            {e \in SamplingExceptions : e.kind = "FieldSamplingError"}
      [] code = ErrorOutOfBounds ->
            {e \in SamplingExceptions : e.kind = "FieldOutOfBoundError"}
      [] code = ErrorThroughSurface ->
            {e \in SamplingExceptions : e.kind = "FieldOutOfBoundSurfaceError"}
      [] code = ErrorTimeExtrapolation ->
            {e \in OtherExceptions : e.kind = "TimeExtrapolationError"}

\* KernelError and its subclasses
KernelErrorClasses ==
    {"KernelError", "InterpolationError", "OutOfBoundsError", "ThroughSurfaceError",
     "OutOfTimeError"}

Raised(class, message) == [raised |-> class, message |-> message]

Returned == [raised |-> "none", message |-> "none"]

\* the message of InterpolationError, OutOfBoundsError and ThroughSurfaceError:
\* the coordinates passed "if lon and lat", the particle's position otherwise
SampledAt(lon, lat) ==
    IF lon # 0 /\ lat # 0 THEN "at the given coordinates" ELSE "at the particle's position"

\* recovery_kernel_error that raises only for a recorded exception
recovery_kernel_error_quiet(particle) ==
    IF particle.exception # NoException
    THEN Raised("KernelError", particle.exception.kind)
    ELSE Returned

recovery_kernel_error(particle) ==
    Raised("KernelError",
           IF particle.exception # NoException THEN particle.exception.kind ELSE "None")

recovery_kernel_interpolation(particle) ==
    IF particle.exception = NoException
    THEN Raised("InterpolationError", SampledAt(0, 0))
    ELSE IF ~HasXYZ(particle.exception)
         THEN Raised("AttributeError", "x")
         ELSE Raised("InterpolationError",
                     SampledAt(particle.exception.coords[1], particle.exception.coords[2]))

recovery_kernel_out_of_bounds(particle) ==
    IF particle.exception = NoException
    THEN Raised("OutOfBoundsError", SampledAt(0, 0))
    ELSE IF ~HasXYZ(particle.exception)
         THEN Raised("AttributeError", "x")
         ELSE Raised("OutOfBoundsError",
                     SampledAt(particle.exception.coords[1], particle.exception.coords[2]))

\* ThroughSurfaceError(particle, fieldset, error.z): lat is not passed
recovery_kernel_through_surface(particle) ==
    IF particle.exception = NoException
    THEN Raised("ThroughSurfaceError", SampledAt(0, 0))
    ELSE IF ~HasXYZ(particle.exception)
         THEN Raised("AttributeError", "z")
         ELSE Raised("ThroughSurfaceError", SampledAt(particle.exception.coords[3], 0))

recovery_kernel_time_extrapolation(particle) ==
    Raised("OutOfTimeError", "outside time domain")

recovery_map ==
    (Error :> "recovery_kernel_error")
    @@ (ErrorInterpolation :> "recovery_kernel_interpolation")
    @@ (ErrorOutOfBounds :> "recovery_kernel_out_of_bounds")
    @@ (ErrorTimeExtrapolation :> "recovery_kernel_time_extrapolation")
    @@ (ErrorThroughSurface :> "recovery_kernel_through_surface")

RunRecovery(kernel, particle) ==
    CASE kernel = "recovery_kernel_error" -> recovery_kernel_error(particle)
      [] kernel = "recovery_kernel_interpolation" -> recovery_kernel_interpolation(particle)
      [] kernel = "recovery_kernel_out_of_bounds" -> recovery_kernel_out_of_bounds(particle)
      [] kernel = "recovery_kernel_through_surface" ->
            recovery_kernel_through_surface(particle)
      [] kernel = "recovery_kernel_time_extrapolation" ->
            recovery_kernel_time_extrapolation(particle)

\* the default recovery action of a code: its entry of recovery_map, the
\* generic Error action when it has none
DefaultRecovery(code) ==
    IF code \in DOMAIN recovery_map THEN recovery_map[code] ELSE recovery_map[Error]

NoOutcome == [code |-> Success, handler |-> "none", raised |-> "none", message |-> "none"]

RecoveryInit ==
    /\ rparticle = [state |-> Evaluate, exception |-> NoException]
    /\ userMap = {}
    /\ outcome = NoOutcome

\* the user registers a recovery action for an error code
RegisterRecovery ==
    \E code \in ErrorCodes \ userMap :
        /\ outcome.raised = "none"
        /\ userMap' = userMap \cup {code}
        /\ UNCHANGED <<rparticle, outcome>>
        /\ UNCHANGED <<kernelVars, idVars, typeVars, indexVars>>

\* a kernel invocation ends in an error code, with or without an exception
KernelFails ==
    \E code \in ErrorCodes : \E e \in ExceptionsOf(code) :
        /\ rparticle.state = Evaluate
        /\ outcome.raised = "none"
        /\ rparticle' = [state |-> code, exception |-> e]
        /\ outcome' = NoOutcome
        /\ UNCHANGED userMap
        /\ UNCHANGED <<kernelVars, idVars, typeVars, indexVars>>

\* the driver dispatches a particle whose code has no registered action
DispatchDefault ==
    /\ rparticle.state \in ErrorCodes \ userMap
    /\ outcome.raised = "none"
    /\ LET r == RunRecovery(DefaultRecovery(rparticle.state), rparticle)
       IN  /\ outcome' = [code |-> rparticle.state, handler |-> "default",
                          raised |-> r.raised, message |-> r.message]
           /\ rparticle' = IF r.raised = "none"
                           THEN [rparticle EXCEPT !.state = Evaluate]
                           ELSE rparticle
    /\ UNCHANGED userMap
    /\ UNCHANGED <<kernelVars, idVars, typeVars, indexVars>>

\* the driver dispatches a particle to the registered action of its code,
\* which resolves the fault or raises
DispatchUser ==
    \E resolves \in BOOLEAN :
        /\ rparticle.state \in ErrorCodes \cap userMap
        /\ outcome.raised = "none"
        /\ outcome' = [code |-> rparticle.state, handler |-> "user",
                       raised |-> IF resolves THEN "none" ELSE "UserFault",
                       message |-> "none"]
        /\ rparticle' = IF resolves THEN [rparticle EXCEPT !.state = Evaluate] ELSE rparticle
        /\ UNCHANGED userMap
        /\ UNCHANGED <<kernelVars, idVars, typeVars, indexVars>>

RecoveryNext == RegisterRecovery \/ KernelFails \/ DispatchDefault \/ DispatchUser

RecoverySpecInit == KernelIdle /\ IdIdle /\ TypeIdle /\ RecoveryInit /\ IndexIdle

SpecRecovery == RecoverySpecInit /\ [][RecoveryNext]_vars

AllExceptions == {NoException} \cup SamplingExceptions \cup OtherExceptions

----------------------------------------------------------------------------
(* The particle type descriptor, particle.py *)

\* Variables a derived class declares
MaxVars == 1

\* derived classes, defined one after the other; class 0 is ScipyParticle
ClassIds == {1, 2}

\* names of the Variables a derived class may declare
UserNames == {"lon", "next_dt", "a"}

\* their dtypes: 4 bytes, 8 bytes, and one that is not supported
UserDtypes == {"float32", "float64", "int16"}

Var(name, dtype) == [name |-> name, dtype |-> dtype]

indicators_64bit == {"float64", "uint64", "int64", "c_void_p"}

\* Variable.is64bit
is64bit(v) == v.dtype \in indicators_64bit

\* the Variables of the body of ScipyParticle, in the order of __dict__; lld
\* is the dtype set_lonlatdepth_dtype gave lon, lat and depth
ScipyParticleVars(lld) ==
    << Var("lon", lld), Var("lat", lld), Var("depth", lld),
       Var("time", "float64"), Var("id", "int64"), Var("once_written", "int32"),
       Var("dt", "float64"), Var("state", "int32"), Var("_next_dt", "float64") >>

Names(variables) == { variables[k].name : k \in 1..Len(variables) }

Is64(v) == is64bit(v)

IsNot64(v) == ~is64bit(v)

\* the variables in the order they were collected
Unsorted(variables) == variables

\* the 64-bit variables first, each group in its order
Sorted64First(variables) == SelectSeq(variables, Is64) \o SelectSeq(variables, IsNot64)

PTypeOk(variables) == [error |-> "none", variables |-> variables]

PTypeError(message) == [error |-> "AttributeError", variables |-> << >>, message |-> message]

\* the first conflict of the variables collected so far with the variables of
\* the base's descriptor, looking at each variable in turn: "none" if none
RECURSIVE Conflict(_, _, _)
Conflict(variables, k, baseNames) ==
    IF k > Len(variables)
    THEN "none"
    ELSE IF variables[k].name \in baseNames
         THEN "is also a built-in variable"
         ELSE IF variables[k].name = "z"
              THEN "z is used for depth in ParticleFile"
              ELSE Conflict(variables, k + 1, baseNames)

\* ParticleType(pclass) for class c of classes: the Variables of the class
\* body, then for each base in turn the check against the base's descriptor
\* and the base's variables put in front; 64-bit variables first at the end
RECURSIVE ParticleType(_, _, _)
RECURSIVE ParticleTypeBases(_, _, _, _, _)
ParticleTypeBases(classes, c, k, variables, lld) ==
    IF k > Len(classes[c].bases)
    THEN PTypeOk(Sorted64First(variables))
    ELSE LET ptype == ParticleType(classes, classes[c].bases[k], lld)
             conflict == IF ptype.error # "none"
                         THEN "none"
                         ELSE Conflict(variables, 1, Names(ptype.variables))
         IN  IF ptype.error # "none"
             THEN ptype
             ELSE IF conflict # "none"
                  THEN PTypeError(conflict)
                  ELSE ParticleTypeBases(classes, c, k + 1, ptype.variables \o variables, lld)

ParticleType(classes, c, lld) ==
    IF c = 0
    THEN PTypeOk(Sorted64First(ScipyParticleVars(lld)))
    ELSE ParticleTypeBases(classes, c, 1, classes[c].vars, lld)

RECURSIVE SumSizes(_, _)
SumSizes(variables, k) ==
    IF k > Len(variables)
    THEN 0
    ELSE (IF is64bit(variables[k]) THEN 8 ELSE 4) + SumSizes(variables, k + 1)

\* ParticleType.size
size(variables) == SumSizes(variables, 1)

\* ParticleType._cache_key
cache_key(variables) == [k \in 1..Len(variables) |-> <<variables[k].name, variables[k].dtype>>]

\* a list of dtypes that lets int16 through
supported_dtypes_with_int16 ==
    {"int32", "uint32", "int64", "uint64", "float32", "float64", "c_void_p", "int16"}

\* ParticleType.supported_dtypes (np.double is np.float64)
supported_dtypes ==
    {"int32", "uint32", "int64", "uint64", "float32", "float64", "c_void_p"}

\* ParticleType.dtype: the C struct, padded to a multiple of 8 bytes
dtype(variables) ==
    IF \E k \in 1..Len(variables) : variables[k].dtype \notin supported_dtypes
    THEN [raised |-> "RuntimeError", type_list |-> << >>]
    ELSE [raised |-> "none",
          type_list |-> IF size(variables) % 8 > 0
                        THEN cache_key(variables) \o << <<"pad", "float32">> >>
                        ELSE cache_key(variables)]

\* the bodies a derived class may have: up to MaxVars Variables, one to a name
RECURSIVE VarLists(_, _)
VarLists(names, n) ==
    IF n = 0
    THEN {<< >>}
    ELSE {<< >>} \cup
         UNION { { <<Var(nm, dt)>> \o l : l \in VarLists(names \ {nm}, n - 1) } :
                   nm \in names, dt \in UserDtypes }

ClassBodies == VarLists(UserNames, MaxVars)

\* the bases class c may name: ScipyParticle, an earlier class, or an earlier
\* class followed by ScipyParticle
BaseLists(c) ==
    {<<0>>} \cup { <<b>> : b \in 1..(c - 1) } \cup { <<b, 0>> : b \in 1..(c - 1) }

NoPType == [cls |-> 0 - 1, ptype |-> PTypeOk(<< >>), size |-> 0,
            cache_key |-> << >>, dtype |-> [raised |-> "none", type_list |-> << >>]]

TypeInit ==
    /\ pclasses = << >>
    /\ lonlatdepth_dtype = "float32"
    /\ ptypeLog = NoPType

\* class <name>(<bases>): with Variables in its body
DefineClass ==
    \E bases \in BaseLists(Len(pclasses) + 1) : \E vs \in ClassBodies :
        /\ Len(pclasses) + 1 \in ClassIds
        /\ pclasses' = Append(pclasses, [bases |-> bases, vars |-> vs])
        /\ UNCHANGED <<lonlatdepth_dtype, ptypeLog>>
        /\ UNCHANGED <<kernelVars, idVars, recoveryVars, indexVars>>

\* cls.getPType(), then size, _cache_key and dtype of the descriptor
getPType ==
    \E c \in 0..Len(pclasses) :
        LET ptype == ParticleType(pclasses, c, lonlatdepth_dtype) IN
        /\ ptypeLog' = IF ptype.error # "none"
                       THEN [NoPType EXCEPT !.cls = c, !.ptype = ptype]
                       ELSE [cls |-> c, ptype |-> ptype,
                             size |-> size(ptype.variables),
                             cache_key |-> cache_key(ptype.variables),
                             dtype |-> dtype(ptype.variables)]
        /\ UNCHANGED <<pclasses, lonlatdepth_dtype>>
        /\ UNCHANGED <<kernelVars, idVars, recoveryVars, indexVars>>

\* ScipyParticle.set_lonlatdepth_dtype(dtype); the descriptors computed
\* before are those of the class as it was
set_lonlatdepth_dtype ==
    \E d \in {"float32", "float64"} :
        /\ d # lonlatdepth_dtype
        /\ lonlatdepth_dtype' = d
        /\ ptypeLog' = NoPType
        /\ UNCHANGED pclasses
        /\ UNCHANGED <<kernelVars, idVars, recoveryVars, indexVars>>

TypeNext == DefineClass \/ getPType \/ set_lonlatdepth_dtype

TypeSpecInit == KernelIdle /\ IdIdle /\ TypeInit /\ RecoveryIdle /\ IndexIdle

SpecType == TypeSpecInit /\ [][TypeNext]_vars

----------------------------------------------------------------------------
(* Properties of the type descriptor *)

EightByteKinds == {"int64", "uint64", "float64", "c_void_p"}

FourByteKinds == {"int32", "uint32", "float32"}

\* a descriptor has been computed and is that of class ptypeLog.cls
Described == ptypeLog.cls >= 0 /\ ptypeLog.ptype.error = "none"

ReservedNames ==
    {"lon", "lat", "depth", "time", "id", "dt", "state", "next_dt", "once_written"}

\* the names the derived classes above c declare
RECURSIVE AncestorNames(_, _)
AncestorNames(classes, c) ==
    UNION { IF b = 0
            THEN {}
            ELSE Names(classes[b].vars) \cup AncestorNames(classes, b) :
            b \in { classes[c].bases[k] : k \in 1..Len(classes[c].bases) } }

\* C8 (schema conflict): the descriptor of a derived class that declares a
\* variable named as a built-in attribute (lon, lat, depth, time, id, dt,
\* state, next_dt, once_written) or as a variable of an ancestor is never
\* built: the construction fails, and no descriptor has a name twice.
C8_SchemaConflict ==
    /\ (/\ ptypeLog.cls >= 1
        /\ \E k \in 1..Len(pclasses[ptypeLog.cls].vars) :
              pclasses[ptypeLog.cls].vars[k].name
                  \in ReservedNames \cup AncestorNames(pclasses, ptypeLog.cls))
       => ptypeLog.ptype.error = "AttributeError"
    /\ Described =>
          \A i, j \in 1..Len(ptypeLog.ptype.variables) :
              i # j => ptypeLog.ptype.variables[i].name # ptypeLog.ptype.variables[j].name

SupportedKinds == {"int32", "uint32", "int64", "uint64", "float32", "float64", "c_void_p"}

\* the dtypes class c and the derived classes above it declare
RECURSIVE DeclaredDtypes(_, _)
DeclaredDtypes(classes, c) ==
    IF c = 0
    THEN {}
    ELSE { classes[c].vars[k].dtype : k \in 1..Len(classes[c].vars) }
         \cup UNION { DeclaredDtypes(classes, classes[c].bases[k]) :
                        k \in 1..Len(classes[c].bases) }

\* C9 (unsupported type), as claimed: the construction of the descriptor of
\* a class with a variable of a kind outside int32, uint32, int64, uint64,
\* float32, float64 and the opaque pointer fails; no descriptor is produced.
C9_UnsupportedType ==
    (/\ ptypeLog.cls >= 1
     /\ ~(DeclaredDtypes(pclasses, ptypeLog.cls) \subseteq SupportedKinds))
    => ptypeLog.ptype.error # "none"

\* C9, amended: the construction does not look at the kinds; the descriptor
\* of such a class has its size and its cache key, and reading its dtype
\* raises RuntimeError, as it does for no descriptor of supported kinds.
C9_UnsupportedAtDtype ==
    Described =>
        LET v == ptypeLog.ptype.variables IN
        /\ (\E k \in 1..Len(v) : v[k].dtype \notin SupportedKinds)
              <=> ptypeLog.dtype.raised = "RuntimeError"
        /\ ptypeLog.dtype.raised \in {"none", "RuntimeError"}
        /\ ptypeLog.size >= 4 * Len(v)
        /\ Len(ptypeLog.cache_key) = Len(v)

\* the descriptor of a class with an int16 variable, whose dtype raised
C9_Witness ==
    /\ Described
    /\ ptypeLog.cls >= 1
    /\ "int16" \in DeclaredDtypes(pclasses, ptypeLog.cls)
    /\ ptypeLog.dtype.raised = "RuntimeError"
    /\ ptypeLog.size > 0

----------------------------------------------------------------------------
(* Neighbour search, scipy_flat.py.  A coordinate is <<lon, lat, depth>>; a
   coordinate of the tree is a fraction <<numerator, denominator>> per axis,
   so that the division by inter_dist is exact.  Distances and coordinates
   are integers and the interaction distances powers of two, for which the
   floating-point division and the sum of squares are exact too. *)

MaxPoints == 2

Coordinates ==
    {<<0, 0, 0>>, <<0, 1, 0>>, <<0, 2, 0>>, <<0, 5, 0>>, <<0, 0, 1>>}

\* four particles at 0, 1, 2 and 5 from a fifth
Scenario == <<<<0, 0, 0>>, <<0, 1, 0>>, <<0, 2, 0>>, <<0, 5, 0>>, <<0, 0, 0>>>>

Snapshots ==
    UNION { [1..n -> Coordinates] : n \in 1..MaxPoints } \cup {Scenario}

\* values=None
None == << >>

InterDists == {<<1, 1, 1>>, <<2, 2, 1>>, <<2, 2, 2>>}

\* BaseFlatNeighborSearch.__init__: the distance scales both horizontal axes
\* and the depth the vertical one
BaseFlatNeighborSearchInit ==
    /\ inter_dist \in InterDists
    /\ values \in Snapshots \cup {None}

\* a tree that exists, empty, before anything was built
EmptyTree == [built |-> TRUE, data |-> << >>, by |-> "none"]

NoTree == [built |-> FALSE, data |-> << >>, by |-> "none"]

\* KDTree(points), built by the constructor or by rebuild
KDTree(data, by) == [built |-> TRUE, data |-> data, by |-> by]

\* values.T as it is
Unscaled(v) == [k \in 1..Len(v) |-> [i \in 1..3 |-> <<v[k][i], 1>>]]

\* values / self.inter_dist
Corrected(v, d) == [k \in 1..Len(v) |-> [i \in 1..3 |-> <<v[k][i], d[i]>>]]

\* squared distance of two points of fractions no more than r squared
WithinBall(a, b, r) ==
    LET e == [i \in 1..3 |-> a[i][2] * b[i][2]]
        n == [i \in 1..3 |-> a[i][1] * b[i][2] - b[i][1] * a[i][2]]
        all == e[1] * e[1] * e[2] * e[2] * e[3] * e[3]
    IN  n[1] * n[1] * e[2] * e[2] * e[3] * e[3]
        + n[2] * n[2] * e[1] * e[1] * e[3] * e[3]
        + n[3] * n[3] * e[1] * e[1] * e[2] * e[2]
        <= r * r * all

\* KDTree.query_ball_point(x, r): the indices, from 0, of the points within r
query_ball_point(tree, x, r) ==
    {k - 1 : k \in {j \in 1..Len(tree.data) : WithinBall(tree.data[j], x, r)}}

find_neighbors_by_coor_unscaled(tree, coor, d) ==
    query_ball_point(tree, [i \in 1..3 |-> <<coor[i], 1>>], 1)

find_neighbors_by_coor(tree, coor, d) ==
    query_ball_point(tree, [i \in 1..3 |-> <<coor[i], d[i]>>], 1)

rebuild_tree_unscaled(v, d) == KDTree(Unscaled(v), "rebuild")

rebuild_tree(v, d) == KDTree(Corrected(v, d), "rebuild")

NoQuery == [op |-> "none", who |-> 0 - 1, coor |-> << >>, result |-> {}, raised |-> "none"]

\* ScipyFlatNeighborSearch.__init__
IndexInit ==
    /\ BaseFlatNeighborSearchInit
    /\ kdtree = IF values # None THEN KDTree(Unscaled(values), "init") ELSE NoTree
    /\ queryLog = NoQuery

\* rebuild(values)
rebuild ==
    \E v \in Snapshots :
        /\ values' = v
        /\ kdtree' = rebuild_tree(v, inter_dist)
        /\ queryLog' = [NoQuery EXCEPT !.op = "rebuild"]
        /\ UNCHANGED inter_dist
        /\ UNCHANGED <<kernelVars, idVars, typeVars, recoveryVars>>

\* rebuild(): None / self.inter_dist raises, whatever was built before
rebuildNone ==
    /\ queryLog' = [NoQuery EXCEPT !.op = "rebuild", !.raised = "TypeError"]
    /\ queryLog' # queryLog
    /\ UNCHANGED <<inter_dist, values, kdtree>>
    /\ UNCHANGED <<kernelVars, idVars, typeVars, recoveryVars>>

\* find_neighbors_by_coor(coor), at the position of the particle of index
\* who of the snapshot or, who being -1, at any other place
findNeighborsByCoor ==
    \E who \in (0 - 1)..(Len(values) - 1) :
      \E coor \in (IF who >= 0 THEN {values[who + 1]} ELSE Coordinates) :
        /\ queryLog' =
              IF kdtree.built
              THEN [op |-> "query", who |-> who, coor |-> coor,
                    result |-> find_neighbors_by_coor(kdtree, coor, inter_dist),
                    raised |-> "none"]
              ELSE [op |-> "query", who |-> who, coor |-> coor,
                    result |-> {}, raised |-> "AttributeError"]
        /\ queryLog' # queryLog
        /\ UNCHANGED <<inter_dist, values, kdtree>>
        /\ UNCHANGED <<kernelVars, idVars, typeVars, recoveryVars>>

IndexNext == rebuild \/ rebuildNone \/ findNeighborsByCoor

IndexSpecInit == KernelIdle /\ IdIdle /\ TypeIdle /\ RecoveryIdle /\ IndexInit

SpecIndex == IndexSpecInit /\ [][IndexNext]_vars

\* the scaled distance of two coordinates is at most 1
ScaledWithinUnit(p, q) ==
    LET d == inter_dist
        D2 == [i \in 1..3 |-> d[i] * d[i]]
        s == [i \in 1..3 |-> (p[i] - q[i]) * (p[i] - q[i])]
    IN  s[1] * D2[2] * D2[3] + s[2] * D2[1] * D2[3] + s[3] * D2[1] * D2[2]
        <= D2[1] * D2[2] * D2[3]

\* a query at the position of an indexed particle has returned, rebuild
\* having built the index
QueriedAfterRebuild ==
    /\ queryLog.op = "query"
    /\ queryLog.raised = "none"
    /\ queryLog.who >= 0
    /\ kdtree.by = "rebuild"

\* C10 (neighbour query), as claimed: after rebuild, a query at the position
\* of an indexed particle returns exactly the indices of the indexed
\* particles at a scaled distance of at most 1, the querying particle
\* excluded.
C10_QueryExcludesSelf ==
    QueriedAfterRebuild =>
        queryLog.result =
            {j \in 0..(Len(values) - 1) :
                j # queryLog.who /\ ScaledWithinUnit(values[j + 1], queryLog.coor)}

\* C10, amended: after rebuild, a query at the position of an indexed
\* particle returns exactly the indices of the indexed particles at a scaled
\* distance of at most 1, and the querying particle is one of them.
C10_QueryIncludesSelf ==
    QueriedAfterRebuild =>
        /\ queryLog.result =
              {j \in 0..(Len(values) - 1) :
                  ScaledWithinUnit(values[j + 1], queryLog.coor)}
        /\ queryLog.who \in queryLog.result

\* the fifth particle of the scenario asks, the interaction distance being 2
C10_Witness ==
    /\ QueriedAfterRebuild
    /\ values = Scenario
    /\ inter_dist[2] = 2
    /\ queryLog.who = 4
    /\ queryLog.result = {0, 1, 2, 4}

\* a query has been made of an index constructed without values on which
\* rebuild never built a tree
QueriedNeverBuilt == queryLog.op = "query" /\ kdtree.by = "none"

\* C11 (index not built), as claimed: the query on an index constructed
\* without values and never rebuilt fails with the dedicated
\* IndexNotBuiltError and returns no result.
C11_IndexNotBuiltError ==
    QueriedNeverBuilt =>
        queryLog.raised = "IndexNotBuiltError" /\ queryLog.result = {}

\* C11, amended: that query fails, with the AttributeError of the read of the
\* tree that was never assigned, and returns no result; the query of an
\* index that was built raises nothing.
C11_AttributeError ==
    queryLog.op = "query" =>
        /\ kdtree.by = "none" => queryLog.raised = "AttributeError" /\ queryLog.result = {}
        /\ kdtree.by # "none" => queryLog.raised = "none"

\* the query of an index constructed without values, never rebuilt
C11_Witness ==
    /\ QueriedNeverBuilt
    /\ values = None
    /\ queryLog.coor \in Coordinates
    /\ queryLog.raised = "AttributeError"

\* a query of an index built by the constructor answers as the index
\* rebuilt with the same values does
ConstructedAnswersAsRebuilt ==
    (queryLog.op = "query" /\ kdtree.by = "init") =>
        /\ queryLog.raised = "none"
        /\ queryLog.result =
              {j \in 0..(Len(values) - 1) : ScaledWithinUnit(values[j + 1], queryLog.coor)}

\* rebuild with no argument, on an index that holds values, leaves the tree
\* of those values scaled
RebuildNoneUsesStored ==
    (queryLog.op = "rebuild" /\ values # None) =>
        /\ queryLog.raised = "none"
        /\ kdtree.by = "rebuild"
        /\ kdtree.data = Corrected(values, inter_dist)

\* C15 (constructor and rebuild agree): an index constructed with values
\* answers every query as an index constructed without values and rebuilt
\* with them, both holding the coordinates scaled by the interaction
\* distances; rebuild with no argument on an index that holds values
\* rebuilds it from the stored values.
C15_ConstructorAsRebuild == ConstructedAnswersAsRebuilt /\ RebuildNoneUsesStored

====
